---- MODULE Spec2Model ----
(***************************************************************************)
(* Timeline segmentation and chaptering engine of the transcription        *)
(* pipeline: the diarization normalizer (Diarizer._postprocess_segments),  *)
(* the speaker-transcript aligner                                          *)
(* (Diarizer.align_transcript_with_diarization) and the chapter segmenter  *)
(* (Chapterizer.process).                                                  *)
(*                                                                         *)
(* Time is counted in ticks of 0.1 ms, so that a raw timestamp can carry a *)
(* sub-millisecond digit that _round_time removes: 1.0 s = 10000 ticks.    *)
(***************************************************************************)
EXTENDS Integers, Sequences, FiniteSets, TLC

VARIABLES
    \* ---- Diarizer._postprocess_segments ----
    raw0,           \* the caller's list of raw turns as it was before the call
    raw_segments,   \* the caller's list of raw turns (the same dict objects the function reads)
    merged,         \* the list built by the first linear pass
    final,          \* the list built by the second pass, before relabelling
    result,         \* the returned list
    again,          \* the list returned when the function is applied to its own result
    npc,            \* position: "start", "done", "redone"
    \* ---- Diarizer.align_transcript_with_diarization ----
    diarization_segments,   \* argument: the turns
    asr_segments,           \* argument: the transcript segments
    all_words,              \* the flattened words
    widx,                   \* index in all_words of the word the loop handles next
    current_speaker,        \* label of the open span, None before the first word
    current_speaker_words,  \* words of the open span
    aligned,                \* the spans closed so far; the return value at "done"
    apc,                    \* position: "start", "loop", "emit", "done"
    \* ---- Chapterizer.process ----
    segments,        \* argument: the transcript units
    chunked_data,    \* the chunks
    num_clusters,    \* the number of clusters requested
    labels,          \* the cluster label of each chunk
    chapters,        \* the chapter ranges
    final_chapters,  \* the titled chapters; the return value at "returned"
    cidx,            \* index in chapters of the chapter titled next
    job,             \* jobs[job_id], as update_job_status writes it
    cpc,             \* position: "start", "embed", "cluster", "title", "returned", "raised"
    \* ---- pipeline.py: the job table, the thread pool, the lazy globals ----
    jobs,            \* the in-memory dict jobs: job_id -> status entry
    work_queue,      \* executor: the submitted calls no worker thread has taken yet
    workers,         \* executor: the job each worker thread runs, 0 when it is idle
    pc,              \* the position of each job in run_job_wrapper / run_full_pipeline
    locals,          \* the local variables of each job's run_full_pipeline call
    models,          \* the globals transcriber, diarizer, ...: 0 for None, else the instance
    built,           \* how many instances of each model class were constructed
    diarizer_pipeline, \* diarizer.pipeline is not None, per Diarizer instance built
    db,              \* db_instance.db is not None
    transcripts      \* db.transcripts: the jobs whose result was inserted

normVars == <<raw0, raw_segments, merged, final, result, again, npc>>
alignVars == <<diarization_segments, asr_segments, all_words, widx, current_speaker,
               current_speaker_words, aligned, apc>>
chapVars == <<segments, chunked_data, num_clusters, labels, chapters, final_chapters,
              cidx, job, cpc>>
pipeVars == <<jobs, work_queue, workers, pc, locals, models, built, diarizer_pipeline, db,
              transcripts>>
vars == <<normVars, alignVars, chapVars, pipeVars>>

----------------------------------------------------------------------------
(* Bounds and program constants *)

MaxTurns == 3
MaxAlignTurns == 2
MaxAsrSegments == 2
MaxUnits == 15
\* the chunk counts for which the cluster-count heuristic is evaluated
MaxChunks == 60

\* the start_job calls of one run; job ids number them in the order of the calls
MaxJobs == 2
\* the start_job calls of one run when only the worker pool and the model
\* loading are followed step by step
MaxPoolJobs == 3
\* the most chapters the clustering of one job's chunks comes back with
MaxChapters == 2

\* ThreadPoolExecutor(max_workers=2)
max_workers == 2

\* the window_size argument Chapterizer.process passes to _chunk_segments
window_size == 3

\* Diarizer.__init__ defaults, in ticks
min_segment_duration == 6000
merge_gap == 3500

Speakers == {"X", "Y", "Z"}

\* (start, end) of the raw turns the diarization model may report, in ticks.
\* <<7504, 13503>> carries sub-millisecond digits: its raw duration is below
\* min_segment_duration, its rounded duration is exactly min_segment_duration,
\* and its rounded start is exactly merge_gap after 4000. The values are chosen
\* so that the float subtractions of the code give the exact decimal results.
RawIntervals ==
    { <<0, 10000>>, <<12000, 20000>>, <<20500, 21000>>, <<5000, 15000>>,
      <<0, 4000>>, <<7504, 13503>>, <<22000, 30000>> }

RawTurns ==
    { [start |-> iv[1], end |-> iv[2], speaker |-> sp] : iv \in RawIntervals, sp \in Speakers }

SeqsUpTo(S, n) == UNION { [1..k -> S] : k \in 0..n }

Max(a, b) == IF a >= b THEN a ELSE b

----------------------------------------------------------------------------
(* Diarizer helpers *)

\* _segment_duration
segment_duration(seg) == seg.end - seg.start

\* _round_time: round(float(t), 3); 3 decimal digits of a second are 10 ticks.
\* A tie (digit 5) goes to the even millisecond, as Python's round does on an
\* exactly representable tie.
round_time(t) ==
    LET q == t \div 10
        r == t % 10
    IN  IF r < 5 THEN 10 * q
        ELSE IF r > 5 THEN 10 * (q + 1)
        ELSE IF q % 2 = 0 THEN 10 * q ELSE 10 * (q + 1)

\* One insertion of the stable sort: x goes after every element whose start is <= x.start.
RECURSIVE InsertByStart(_, _)
InsertByStart(s, x) ==
    IF s = <<>> THEN <<x>>
    ELSE IF s[Len(s)].start <= x.start THEN Append(s, x)
    ELSE Append(InsertByStart(SubSeq(s, 1, Len(s) - 1), x), s[Len(s)])

\* sorted(xs, key=lambda s: s["start"]): a stable sort by start
RECURSIVE SortByStart(_)
SortByStart(s) ==
    IF s = <<>> THEN <<>>
    ELSE InsertByStart(SortByStart(SubSeq(s, 1, Len(s) - 1)), s[Len(s)])

\* the rounding loop body: s["start"] = round(...), s["end"] = round(...)
RoundSeg(s) == [s EXCEPT !.start = round_time(@), !.end = round_time(@)]

RoundAll(s) == [i \in DOMAIN s |-> RoundSeg(s[i])]

\* Mutant of ExtendLast: the accumulator's end is not extended.
ExtendLastKeepEnd(acc, seg) == acc

\* last["end"] = max(last["end"], seg["end"])
ExtendLast(acc, seg) == [acc EXCEPT ![Len(acc)].end = Max(@, seg.end)]

\* Mutant of MergeStep: a close turn is absorbed regardless of speaker and of
\* its duration.
MergeStepAnyDuration(acc, seg) ==
    IF acc = <<>> THEN Append(acc, seg)
    ELSE IF seg.start - acc[Len(acc)].end <= merge_gap
        THEN ExtendLast(acc, seg)
        ELSE Append(acc, seg)

\* body of the first pass, for one incoming segment
MergeStep(acc, seg) ==
    IF acc = <<>> THEN Append(acc, seg)
    ELSE LET last == acc[Len(acc)]
             gap == seg.start - last.end
         IN  IF seg.speaker = last.speaker /\ gap <= merge_gap
                 THEN ExtendLast(acc, seg)
             ELSE IF segment_duration(seg) < min_segment_duration /\ gap <= merge_gap
                 THEN ExtendLast(acc, seg)
             ELSE Append(acc, seg)

RECURSIVE MergePass(_)
MergePass(segs) ==
    IF segs = <<>> THEN <<>>
    ELSE MergeStep(MergePass(SubSeq(segs, 1, Len(segs) - 1)), segs[Len(segs)])

\* Mutant of FinalStep: a turn that is still too short is dropped.
FinalStepDropShort(acc, seg) ==
    IF segment_duration(seg) < min_segment_duration /\ acc # <<>>
        THEN acc
        ELSE Append(acc, seg)

\* body of the second pass, for one segment of merged
FinalStep(acc, seg) ==
    IF segment_duration(seg) < min_segment_duration /\ acc # <<>>
        THEN ExtendLast(acc, seg)
        ELSE Append(acc, seg)

RECURSIVE FinalPass(_)
FinalPass(segs) ==
    IF segs = <<>> THEN <<>>
    ELSE FinalStep(FinalPass(SubSeq(segs, 1, Len(segs) - 1)), segs[Len(segs)])

\* f"Speaker {next_idx}"
SpeakerLabel(k) == "Speaker " \o ToString(k)

\* the original ids in order of first appearance among segs[1..n]
RECURSIVE FirstSeen(_, _)
FirstSeen(segs, n) ==
    IF n = 0 THEN <<>>
    ELSE LET before == FirstSeen(segs, n - 1)
         IN  IF \E j \in DOMAIN before : before[j] = segs[n].speaker
                 THEN before
                 ELSE Append(before, segs[n].speaker)

IndexOf(s, x) == CHOOSE j \in DOMAIN s : s[j] = x

\* Mutant of Relabel: every segment gets a fresh number (the map lookup is skipped).
RelabelFresh(segs) == [i \in DOMAIN segs |-> [segs[i] EXCEPT !.speaker = SpeakerLabel(i)]]

\* the relabelling loop: speaker_map[lbl] = f"Speaker {next_idx}" on first sight
Relabel(segs) ==
    [i \in DOMAIN segs |->
        [segs[i] EXCEPT !.speaker = SpeakerLabel(IndexOf(FirstSeen(segs, i), segs[i].speaker))]]

\* Mutant of FinalSort: the final list is returned in reverse order.
ReverseList(segs) == [i \in DOMAIN segs |-> segs[Len(segs) + 1 - i]]

\* final = sorted(final, key=lambda s: s["start"])
FinalSort(segs) == SortByStart(segs)

\* the three lists _postprocess_segments builds from the caller's list
PostSegs(raw) == RoundAll(SortByStart(raw))
PostMerged(raw) == MergePass(PostSegs(raw))
PostFinal(raw) == FinalPass(PostMerged(raw))

\* _postprocess_segments: the returned list
postprocess_segments(raw) ==
    IF raw = <<>> THEN <<>> ELSE FinalSort(Relabel(PostFinal(raw)))

----------------------------------------------------------------------------
(* Normalizer: state machine *)

\* the lazily loaded globals of pipeline.py, in the order run_full_pipeline loads them
ModelNames == <<"transcriber", "diarizer", "summarizer", "analyzer", "chapterizer">>

\* the result dict before it is built
NoResult == [transcript |-> "unset", summary |-> "unset", sentiment |-> "unset", chapters |-> -1]

\* the locals of a run_full_pipeline call that has not assigned any of them.
\* segments is "asr" for the transcriber's segments and "aligned" for the spans
\* of the aligner; chapters is the length of the chapter list.
NoLocals ==
    [m |-> 0, segments |-> "unset", diarization_segments |-> "unset",
     summary |-> "unset", sentiment |-> "unset", chapters |-> -1, i |-> 0, e |-> "none",
     result |-> NoResult]

\* the module state of pipeline.py right after import: no jobs, idle pool, no model loaded
PipeFresh ==
    /\ jobs = <<>>
    /\ work_queue = <<>>
    /\ workers = {}
    /\ pc = <<>>
    /\ locals = <<>>
    /\ models = [n \in 1..Len(ModelNames) |-> 0]
    /\ built = [n \in 1..Len(ModelNames) |-> 0]
    /\ diarizer_pipeline = <<>>
    /\ transcripts = {}

\* no job is ever started
PipeIdle ==
    /\ PipeFresh
    /\ db = FALSE

\* the chapterizer is not called
ChapIdle ==
    /\ segments = <<>>
    /\ chunked_data = <<>>
    /\ num_clusters = 0
    /\ labels = <<>>
    /\ chapters = <<>>
    /\ final_chapters = <<>>
    /\ cidx = 0
    /\ job = [status |-> "idle", progress |-> 0, message |-> ""]
    /\ cpc = "idle"

\* the aligner is not called
AlignIdle ==
    /\ diarization_segments = <<>>
    /\ asr_segments = <<>>
    /\ all_words = <<>>
    /\ widx = 0
    /\ current_speaker = "None"
    /\ current_speaker_words = <<>>
    /\ aligned = <<>>
    /\ apc = "idle"

NormInit ==
    /\ AlignIdle
    /\ ChapIdle
    /\ PipeIdle
    /\ raw0 \in SeqsUpTo(RawTurns, MaxTurns)
    /\ raw_segments = raw0
    /\ merged = <<>>
    /\ final = <<>>
    /\ result = <<>>
    /\ again = <<>>
    /\ npc = "start"

\* One call of _postprocess_segments(raw_segments). The rounding loop writes into
\* the dicts of the caller's list, which keeps its own order.
PostprocessSegments ==
    /\ npc = "start"
    /\ raw_segments' = IF raw_segments = <<>> THEN raw_segments ELSE RoundAll(raw_segments)
    /\ merged' = IF raw_segments = <<>> THEN <<>> ELSE PostMerged(raw_segments)
    /\ final' = IF raw_segments = <<>> THEN <<>> ELSE PostFinal(raw_segments)
    /\ result' = postprocess_segments(raw_segments)
    /\ npc' = "done"
    /\ UNCHANGED <<raw0, again, alignVars, chapVars, pipeVars>>

\* A second call, on the list the first call returned.
PostprocessAgain ==
    /\ npc = "done"
    /\ again' = postprocess_segments(result)
    /\ npc' = "redone"
    /\ UNCHANGED <<raw0, raw_segments, merged, final, result, alignVars, chapVars, pipeVars>>

NormNext == PostprocessSegments \/ PostprocessAgain

SpecNorm == NormInit /\ [][NormNext]_vars

----------------------------------------------------------------------------
(* Aligner: inputs *)

\* Python's None, the value of current_speaker before the first word
None == "None"

\* A text is a sequence of atoms: " " is a whitespace character, any other atom
\* is a run of non-whitespace characters.
Word(s, e, w) == [start |-> s, end |-> e, word |-> w, probability |-> 900]

\* Transcript segments as Transcriber.transcribe formats them. The first two are
\* the segments of test_alignment; the first alone holds the words of Scenario B.
SegHello ==
    [start |-> 0, end |-> 20000, text |-> <<"Hello", " ", "world">>,
     words |-> << Word(0, 5000, <<"Hello">>),
                  Word(6000, 10000, <<" ", "world">>),
                  Word(15000, 20000, <<" ", "here">>) >>]

SegSpeaking ==
    [start |-> 22000, end |-> 30000, text |-> <<" ", "I", " ", "am", " ", "speaking.">>,
     words |-> << Word(22000, 25000, <<" ", "I">>),
                  Word(25000, 27000, <<" ", "am">>),
                  Word(28000, 30000, <<" ", "speaking.">>) >>]

\* a segment without a "words" key
SegNoWordsKey == [start |-> 31000, end |-> 40000, text |-> <<" ", "ok", " ">>]

\* a segment whose words list is empty
SegEmptyWords == [start |-> 10000, end |-> 13000, text |-> <<"fine">>, words |-> <<>>]

\* a whitespace-only word, and a word whose midpoint is the instant 1.2 s
SegBlank ==
    [start |-> 9000, end |-> 14000, text |-> <<" ", "um">>,
     words |-> << Word(9000, 10000, <<" ">>), Word(10000, 14000, <<"um", " ">>) >>]

AsrSegmentPool == {SegHello, SegSpeaking, SegNoWordsKey, SegEmptyWords, SegBlank}

TurnIntervals == { <<0, 12000>>, <<14000, 30000>>, <<12000, 30000>> }

TurnPool ==
    { [start |-> iv[1], end |-> iv[2], speaker |-> SpeakerLabel(k)] : iv \in TurnIntervals, k \in 1..2 }
    \cup { [start |-> 0, end |-> 12000, speaker |-> "SPEAKER_01"],
           [start |-> 14000, end |-> 30000, speaker |-> "SPEAKER_02"] }

----------------------------------------------------------------------------
(* Aligner: helpers *)

\* twice the midpoint (word["start"] + word["end"]) / 2, which keeps it an integer
Midpoint2(word) == word.start + word.end

\* Mutant of get_speaker_at: the interval test is half-open, a midpoint on a
\* turn's end is not inside the turn.
get_speaker_at_half_open(turns, mid2) ==
    IF \E i \in DOMAIN turns : 2 * turns[i].start <= mid2 /\ mid2 < 2 * turns[i].end
        THEN LET first == CHOOSE i \in DOMAIN turns :
                      /\ 2 * turns[i].start <= mid2 /\ mid2 < 2 * turns[i].end
                      /\ \A j \in 1..(i - 1) :
                            ~(2 * turns[j].start <= mid2 /\ mid2 < 2 * turns[j].end)
             IN  turns[first].speaker
        ELSE "Speaker"

\* Mutant of get_speaker_at: the last turn in list order that contains the time
\* point wins.
get_speaker_at_last(turns, mid2) ==
    IF \E i \in DOMAIN turns : 2 * turns[i].start <= mid2 /\ mid2 <= 2 * turns[i].end
        THEN LET last == CHOOSE i \in DOMAIN turns :
                      /\ 2 * turns[i].start <= mid2 /\ mid2 <= 2 * turns[i].end
                      /\ \A j \in (i + 1)..Len(turns) :
                            ~(2 * turns[j].start <= mid2 /\ mid2 <= 2 * turns[j].end)
             IN  turns[last].speaker
        ELSE "Speaker"

\* get_speaker_at: the label of the first turn, in list order, that contains
\* the time point; "Speaker" when no turn does
get_speaker_at(turns, mid2) ==
    IF \E i \in DOMAIN turns : 2 * turns[i].start <= mid2 /\ mid2 <= 2 * turns[i].end
        THEN LET first == CHOOSE i \in DOMAIN turns :
                      /\ 2 * turns[i].start <= mid2 /\ mid2 <= 2 * turns[i].end
                      /\ \A j \in 1..(i - 1) :
                            ~(2 * turns[j].start <= mid2 /\ mid2 <= 2 * turns[j].end)
             IN  turns[first].speaker
        ELSE "Speaker"

\* Mutant of SegmentWords: a segment without words contributes nothing.
SegmentWordsNoFallback(asr_seg) ==
    IF "words" \in DOMAIN asr_seg THEN asr_seg.words ELSE <<>>

\* the words one transcript segment contributes to all_words
SegmentWords(asr_seg) ==
    IF "words" \in DOMAIN asr_seg /\ asr_seg.words # <<>>
        THEN asr_seg.words
        ELSE << [start |-> asr_seg.start, end |-> asr_seg.end,
                 word |-> asr_seg.text, probability |-> 1000] >>

\* the flattening loop over asr_segments
RECURSIVE Flatten(_)
Flatten(segs) ==
    IF segs = <<>> THEN <<>>
    ELSE Flatten(SubSeq(segs, 1, Len(segs) - 1)) \o SegmentWords(segs[Len(segs)])

\* "".join([w["word"] for w in words])
RECURSIVE JoinWords(_)
JoinWords(words) ==
    IF words = <<>> THEN <<>>
    ELSE JoinWords(SubSeq(words, 1, Len(words) - 1)) \o words[Len(words)].word

RECURSIVE LStrip(_)
LStrip(t) == IF t # <<>> /\ t[1] = " " THEN LStrip(Tail(t)) ELSE t

RECURSIVE RStrip(_)
RStrip(t) == IF t # <<>> /\ t[Len(t)] = " " THEN RStrip(SubSeq(t, 1, Len(t) - 1)) ELSE t

\* str.strip()
Strip(t) == RStrip(LStrip(t))

\* Mutant of Span: the span ends where its first word ends.
SpanEndsAtFirstWord(speaker, words) ==
    [speaker |-> speaker,
     start |-> words[1].start,
     end |-> words[1].end,
     text |-> Strip(JoinWords(words))]

\* the dict appended to aligned when a span is closed
Span(speaker, words) ==
    [speaker |-> speaker,
     start |-> words[1].start,
     end |-> words[Len(words)].end,
     text |-> Strip(JoinWords(words))]

\* Mutant of SpeakerChanged: every word is taken as a change of speaker.
SpeakerChangedAlways(word_speaker, current) == TRUE

\* if word_speaker != current_speaker
SpeakerChanged(word_speaker, current) == word_speaker # current

\* Mutant of LastSpan: the span still open after the loop is not appended.
LastSpanDropped(spans, speaker, words) == spans

\* "Append last segment": the span still open after the loop
LastSpan(spans, speaker, words) ==
    IF words # <<>> THEN Append(spans, Span(speaker, words)) ELSE spans

----------------------------------------------------------------------------
(* Aligner: state machine *)

\* the normalizer is not called
NormIdle ==
    /\ raw0 = <<>>
    /\ raw_segments = <<>>
    /\ merged = <<>>
    /\ final = <<>>
    /\ result = <<>>
    /\ again = <<>>
    /\ npc = "idle"

AlignInit ==
    /\ NormIdle
    /\ ChapIdle
    /\ PipeIdle
    /\ diarization_segments \in SeqsUpTo(TurnPool, MaxAlignTurns)
    /\ asr_segments \in SeqsUpTo(AsrSegmentPool, MaxAsrSegments)
    /\ all_words = <<>>
    /\ widx = 0
    /\ current_speaker = None
    /\ current_speaker_words = <<>>
    /\ aligned = <<>>
    /\ apc = "start"

\* Flatten all words from the ASR segments; return [] if there are none.
FlattenWords ==
    /\ apc = "start"
    /\ all_words' = Flatten(asr_segments)
    /\ IF all_words' = <<>>
          THEN apc' = "done" /\ widx' = 0
          ELSE apc' = "loop" /\ widx' = 1
    /\ UNCHANGED <<diarization_segments, asr_segments, current_speaker,
                   current_speaker_words, aligned, normVars, chapVars, pipeVars>>

\* One iteration of "for word in all_words".
AssignWord ==
    /\ apc = "loop"
    /\ LET word == all_words[widx]
           word_speaker == get_speaker_at(diarization_segments, Midpoint2(word))
       IN  IF current_speaker = None
               THEN /\ current_speaker' = word_speaker
                    /\ current_speaker_words' = Append(current_speaker_words, word)
                    /\ aligned' = aligned
           ELSE IF SpeakerChanged(word_speaker, current_speaker)
               THEN /\ aligned' = Append(aligned, Span(current_speaker, current_speaker_words))
                    /\ current_speaker' = word_speaker
                    /\ current_speaker_words' = <<word>>
           ELSE /\ current_speaker_words' = Append(current_speaker_words, word)
                /\ UNCHANGED <<aligned, current_speaker>>
    /\ IF widx = Len(all_words)
          THEN apc' = "emit" /\ widx' = widx
          ELSE apc' = "loop" /\ widx' = widx + 1
    /\ UNCHANGED <<diarization_segments, asr_segments, all_words, normVars, chapVars, pipeVars>>

\* After the loop: append the last span and return aligned.
EmitLast ==
    /\ apc = "emit"
    /\ aligned' = LastSpan(aligned, current_speaker, current_speaker_words)
    /\ apc' = "done"
    /\ UNCHANGED <<diarization_segments, asr_segments, all_words, widx, current_speaker,
                   current_speaker_words, normVars, chapVars, pipeVars>>

AlignNext == FlattenWords \/ AssignWord \/ EmitLast

SpecAlign == AlignInit /\ [][AlignNext]_vars

----------------------------------------------------------------------------
(* Chapter segmenter: inputs *)

\* A unit text is known by the unit it belongs to and by its length in
\* characters: [parts |-> the unit names and separators in order, len |-> length].
UnitText(i, n) == [parts |-> <<"u" \o ToString(i)>>, len |-> n]

\* start of the first unit, silence between two units, duration of a unit
\* (ticks) and length of a unit's text (characters)
FirstStarts == {0, 5000}
UnitGaps == {0, 5000}
UnitDurations == {20000}
UnitTextLens == {10, 30}

\* n time-ordered units
Units(n, first, gap, dur, tlen) ==
    [i \in 1..n |->
        [start |-> first + (i - 1) * (dur + gap),
         end |-> first + (i - 1) * (dur + gap) + dur,
         text |-> UnitText(i, tlen)]]

\* A title is a sequence of atoms: "T" a word, " " whitespace, "q" a double
\* quote; the fixed titles are one atom each.
\* The "response" strings of the text-generation service: empty, blank, a
\* title, a title in quotes, a title with blanks around it, a pair of quotes,
\* a blank in quotes.
TitleResponses ==
    {<<>>, <<" ">>, <<" ", " ">>, <<"T">>, <<"q", "T", "q">>, <<" ", "T", " ">>,
     <<"q", "q">>, <<"q", " ", "q">>}

\* what requests.post(...) and response.json() do: status 200 with a "response"
\* string, status 200 without the key, status 200 with a null "response" or a
\* body that is not JSON, a status other than 200, a timeout, another exception
TitleOutcomes ==
    [kind : {"ok"}, response : TitleResponses]
        \cup [kind : {"missing", "null", "not json", "status", "timeout", "raise"},
              response : {<<>>}]

----------------------------------------------------------------------------
(* Chapter segmenter: helpers *)

Min(a, b) == IF a <= b THEN a ELSE b

\* " ".join(texts)
RECURSIVE JoinTexts(_)
JoinTexts(texts) ==
    IF texts = <<>> THEN [parts |-> <<>>, len |-> 0]
    ELSE IF Len(texts) = 1 THEN texts[1]
    ELSE LET init == JoinTexts(SubSeq(texts, 1, Len(texts) - 1))
             last == texts[Len(texts)]
         IN  [parts |-> init.parts \o <<" ">> \o last.parts, len |-> init.len + 1 + last.len]

\* _chunk_segments: the chunks closed after the first n units
RECURSIVE ChunksUpTo(_, _, _)
ChunksUpTo(segs, w, n) ==
    IF n = 0 THEN <<>>
    ELSE IF n % w = 0 \/ n = Len(segs)
        THEN LET first == ((n - 1) \div w) * w + 1
             IN  Append(ChunksUpTo(segs, w, first - 1),
                        [text |-> JoinTexts([j \in 1..(n - first + 1) |-> segs[first + j - 1].text]),
                         start |-> segs[first].start,
                         end |-> segs[n].end])
        ELSE ChunksUpTo(segs, w, n - 1)

\* _chunk_segments
chunk_segments(segs, w) == ChunksUpTo(segs, w, Len(segs))

\* Mutant of determine_optimal_clusters: the num_sentences < 5 guard is skipped.
determine_optimal_clusters_no_guard(num_sentences) ==
    Max(2, CHOOSE m \in 0..num_sentences :
               25 * m * m <= 9 * num_sentences /\ 25 * (m + 1) * (m + 1) > 9 * num_sentences)

\* _determine_optimal_clusters: int(np.sqrt(n) * 0.6) is the largest m with
\* 25 m^2 <= 9 n
determine_optimal_clusters(num_sentences) ==
    IF num_sentences < 5 THEN 1
    ELSE Max(2, CHOOSE m \in 0..num_sentences :
                    25 * m * m <= 9 * num_sentences /\ 25 * (m + 1) * (m + 1) > 9 * num_sentences)

\* _create_temporal_feature_matrix(n) is the column 0, 1, ..., n-1, and
\* kneighbors_graph(X, n_neighbors=2, include_self=True) gives each chunk
\* itself and ONE nearest other chunk: the only neighbour for the first and the
\* last chunk, and for a chunk in between either i-1 or i+1, both at distance 1
\* (which of two equally near neighbours is taken is left open by the library).
\* The result is the chosen neighbour of each chunk, one function per way of
\* resolving the ties.
kneighbors_graph(n) ==
    { [i \in 1..n |-> IF i = 1 THEN 2
                      ELSE IF i = n THEN n - 1
                      ELSE IF i \in up THEN i + 1 ELSE i - 1] :
        up \in SUBSET (2..(n - 1)) }

\* the connectivity as the clustering uses it, made symmetric: a set of links {i, j}
Links(nb) == { {i, nb[i]} : i \in DOMAIN nb }

\* the chunks linked to a chunk of S directly or through other chunks
RECURSIVE Reach(_, _)
Reach(S, links) ==
    LET more == S \cup UNION { e \in links : e \cap S # {} }
    IN  IF more = S THEN S ELSE Reach(more, links)

\* the connected components of the connectivity
Components(n, links) == { Reach({i}, links) : i \in 1..n }

\* the links one chunk of A to one chunk of B, for two components A, B
Between(n, pair) ==
    { e \in SUBSET (1..n) : Cardinality(e) = 2 /\ \A A \in pair : Cardinality(e \cap A) = 1 }

\* AgglomerativeClustering with a connectivity of several components completes
\* it: for every two components it adds a link between their two chunks whose
\* embeddings are nearest, which may be any chunk of the one and any of the other.
\* A connected connectivity is left as it is.
fix_connectivity(n, links) ==
    LET pairs == { p \in SUBSET Components(n, links) : Cardinality(p) = 2 }
        cross == UNION { Between(n, p) : p \in pairs }
    IN  { links \cup added :
            added \in { a \in SUBSET cross :
                          \A p \in pairs : Cardinality(a \cap Between(n, p)) = 1 } }

\* every cluster of the labelling l hangs together in the connectivity
ClustersConnected(l, links) ==
    \A c \in { l[i] : i \in DOMAIN l } :
        LET S == { i \in DOMAIN l : l[i] = c }
        IN  Reach({CHOOSE i \in S : TRUE}, { e \in links : e \subseteq S }) = S

\* What fit_predict may return: a label in 0..k-1 per chunk, each of the k
\* clusters non-empty and connected in the (completed) connectivity; within
\* that the embeddings decide.
Labelings(n, k) ==
    { l \in [1..n -> 0..(k - 1)] :
        /\ \A c \in 0..(k - 1) : \E i \in 1..n : l[i] = c
        /\ \E nb \in kneighbors_graph(n) :
              \E links \in fix_connectivity(n, Links(nb)) : ClustersConnected(l, links) }

\* _labels_to_chapters: the chapters closed by the loop over labs[2..n], and
\* the index of the chunk the open chapter starts with
RECURSIVE ClosedChapters(_, _, _)
ClosedChapters(labs, chunks, n) ==
    IF n <= 1 THEN [closed |-> <<>>, open |-> 1]
    ELSE LET before == ClosedChapters(labs, chunks, n - 1)
         IN  IF labs[n] # labs[n - 1]
                 THEN [closed |-> Append(before.closed,
                                    [start |-> chunks[before.open].start,
                                     end |-> chunks[n - 1].end,
                                     text |-> JoinTexts([j \in 1..(n - before.open) |->
                                                           chunks[before.open + j - 1].text])]),
                       open |-> n]
                 ELSE before

\* Mutant of labels_to_chapters: the chapter still open after the loop is not added.
labels_to_chapters_no_last(labs, chunks) ==
    ClosedChapters(labs, chunks, Len(labs)).closed

\* _labels_to_chapters
labels_to_chapters(labs, chunks) ==
    LET done == ClosedChapters(labs, chunks, Len(labs))
        n == Len(chunks)
    IN  Append(done.closed,
               [start |-> chunks[done.open].start,
                end |-> chunks[n].end,
                text |-> JoinTexts([j \in 1..(n - done.open + 1) |-> chunks[done.open + j - 1].text])])

\* str.strip(): leading and trailing whitespace removed
RECURSIVE StripTitle(_)
StripTitle(t) ==
    IF t = <<>> THEN t
    ELSE IF Head(t) = " " THEN StripTitle(Tail(t))
    ELSE IF t[Len(t)] = " " THEN StripTitle(SubSeq(t, 1, Len(t) - 1))
    ELSE t

\* str.replace('"', '')
RemoveQuotes(t) == SelectSeq(t, LAMBDA c : c # "q")

\* Mutant of generate_title: the stripped response is returned as it is.
generate_title_no_fallback(text, outcome) ==
    IF text.len < 50 THEN <<"Untitled Segment">>
    ELSE IF outcome.kind \in {"ok", "missing"} THEN RemoveQuotes(StripTitle(outcome.response))
    ELSE <<"New Chapter">>

\* _generate_title, for one outcome of the request: .get("response", "") of a
\* 200 reply gives the string or "", anything else ends at return "New Chapter"
generate_title(text, outcome) ==
    IF text.len < 50 THEN <<"Untitled Segment">>
    ELSE IF outcome.kind \in {"ok", "missing"}
        THEN LET title == RemoveQuotes(StripTitle(outcome.response))
             IN  IF title # <<>> THEN title ELSE <<"Chapter">>
    ELSE <<"New Chapter">>

\* chapter['text'][:200] + "..."
Preview(text) == [parts |-> text.parts \o <<"...">>, len |-> Min(200, text.len) + 3]

\* the chapter the short-circuit returns
Overview == [start |-> 0, title |-> <<"Overview">>, summary |-> [parts |-> <<"Full Content">>, len |-> 12]]

\* update_job_status(job_id, status, progress, message)
JobStatus(status, progress, message) ==
    [status |-> status, progress |-> progress, message |-> message]

----------------------------------------------------------------------------
(* Chapter segmenter: state machine *)

ChapInit ==
    /\ NormIdle
    /\ AlignIdle
    /\ PipeIdle
    /\ \E n \in 0..MaxUnits, first \in FirstStarts, gap \in UnitGaps,
          dur \in UnitDurations, tlen \in UnitTextLens :
          segments = Units(n, first, gap, dur, tlen)
    /\ chunked_data = <<>>
    /\ num_clusters = 0
    /\ labels = <<>>
    /\ chapters = <<>>
    /\ final_chapters = <<>>
    /\ cidx = 0
    /\ job = JobStatus("processing", 82, "Segmenting chapters...")
    /\ cpc = "start"

\* process, called with no units: return [].
ProcessEmpty ==
    /\ cpc = "start"
    /\ segments = <<>>
    /\ cpc' = "returned"
    /\ UNCHANGED <<segments, chunked_data, num_clusters, labels, chapters, final_chapters,
                   cidx, job, normVars, alignVars, pipeVars>>

\* process, up to the chunking; fewer than 2 chunks return the Overview chapter.
ProcessChunk ==
    /\ cpc = "start"
    /\ segments # <<>>
    /\ job' = JobStatus("processing", 82, "Generating embeddings for segmentation...")
    /\ chunked_data' = chunk_segments(segments, window_size)
    /\ IF Len(chunked_data') < 2
          THEN final_chapters' = <<Overview>> /\ cpc' = "returned"
          ELSE final_chapters' = final_chapters /\ cpc' = "embed"
    /\ UNCHANGED <<segments, num_clusters, labels, chapters, cidx, normVars, alignVars, pipeVars>>

\* embed_model.encode(sentences): returns the embeddings
EmbedOk ==
    /\ cpc = "embed"
    /\ job' = JobStatus("processing", 85, "identifying topic boundaries...")
    /\ num_clusters' = determine_optimal_clusters(Len(chunked_data))
    /\ cpc' = "cluster"
    /\ UNCHANGED <<segments, chunked_data, labels, chapters, final_chapters, cidx,
                   normVars, alignVars, pipeVars>>

\* embed_model.encode(sentences): raises, and process does not catch it
EmbedRaises ==
    /\ cpc = "embed"
    /\ cpc' = "raised"
    /\ UNCHANGED <<segments, chunked_data, num_clusters, labels, chapters, final_chapters,
                   cidx, job, normVars, alignVars, pipeVars>>

\* fit_predict, then _labels_to_chapters
Cluster ==
    /\ cpc = "cluster"
    /\ \E l \in Labelings(Len(chunked_data), num_clusters) :
          /\ labels' = l
          /\ chapters' = labels_to_chapters(l, chunked_data)
    /\ job' = JobStatus("processing", 88, "Generating chapter titles...")
    /\ cidx' = 1
    /\ cpc' = "title"
    /\ UNCHANGED <<segments, chunked_data, num_clusters, final_chapters, normVars, alignVars, pipeVars>>

\* one iteration of the titling loop
TitleChapter ==
    /\ cpc = "title"
    /\ cidx <= Len(chapters)
    /\ \E outcome \in TitleOutcomes :
          final_chapters' =
              Append(final_chapters,
                     [start |-> chapters[cidx].start,
                      end |-> chapters[cidx].end,
                      title |-> generate_title(chapters[cidx].text, outcome),
                      summary |-> Preview(chapters[cidx].text)])
    /\ job' = JobStatus("processing", 88 + (((cidx - 1) * 5) \div Len(chapters)),
                        "Titled chapter " \o ToString(cidx) \o "/" \o ToString(Len(chapters)))
    /\ cidx' = cidx + 1
    /\ UNCHANGED <<segments, chunked_data, num_clusters, labels, chapters, cpc,
                   normVars, alignVars, pipeVars>>

\* return final_chapters
ReturnChapters ==
    /\ cpc = "title"
    /\ cidx > Len(chapters)
    /\ cpc' = "returned"
    /\ UNCHANGED <<segments, chunked_data, num_clusters, labels, chapters, final_chapters,
                   cidx, job, normVars, alignVars, pipeVars>>

ChapNext ==
    \/ ProcessEmpty
    \/ ProcessChunk
    \/ EmbedOk
    \/ EmbedRaises
    \/ Cluster
    \/ TitleChapter
    \/ ReturnChapters

SpecChap == ChapInit /\ [][ChapNext]_vars

----------------------------------------------------------------------------
(* Pipeline: jobs, the worker pool, run_job_wrapper and run_full_pipeline *)

\* the jobs started so far; job ids number the start_job calls
Jobs == DOMAIN pc

\* update_job_status(job_id, status, progress, message): jobs[job_id] = {...}
update_job_status(j, status, progress, message) ==
    jobs' = [jobs EXCEPT ![j] = JobStatus(status, progress, message)]

\* update_job_status(job_id, status, progress, message, result=...)
update_job_status_result(j, status, progress, message, res) ==
    jobs' = [jobs EXCEPT ![j] = [status |-> status, progress |-> progress,
                                 message |-> message, result |-> res]]

Goto(j, p) == pc' = [pc EXCEPT ![j] = p]

\* the worker thread that ran job j goes back to the queue; the locals of the
\* call are gone
Release(j) ==
    /\ workers' = workers \ {j}
    /\ locals' = [locals EXCEPT ![j] = NoLocals]

globalVars == <<models, built, diarizer_pipeline, db, transcripts>>
otherVars == <<normVars, alignVars, chapVars>>

\* a step of job j that only reports its status and moves on
Report(j, from, status, progress, message, to) ==
    /\ pc[j] = from
    /\ update_job_status(j, status, progress, message)
    /\ Goto(j, to)
    /\ UNCHANGED <<work_queue, workers, locals, globalVars, otherVars>>

\* a step of job j that raises e inside the try block of run_full_pipeline
Raise(j, from, e) ==
    /\ pc[j] = from
    /\ locals' = [locals EXCEPT ![j].e = e]
    /\ Goto(j, "except")
    /\ UNCHANGED <<jobs, work_queue, workers, globalVars, otherVars>>

PipeInit ==
    /\ NormIdle
    /\ AlignIdle
    /\ ChapIdle
    /\ PipeFresh
    /\ db \in BOOLEAN

\* start_job(job_id, run_full_pipeline, source, is_url), while fewer than max
\* jobs were started
Submit(max) ==
    /\ Len(pc) < max
    /\ jobs' = Append(jobs, JobStatus("queued", 0, "Waiting in queue..."))
    /\ work_queue' = Append(work_queue, Len(pc) + 1)
    /\ pc' = Append(pc, "queued")
    /\ locals' = Append(locals, NoLocals)
    /\ UNCHANGED <<workers, globalVars, otherVars>>

\* app.py upload_file / process_url: start_job(job_id, run_full_pipeline, ...)
StartJob == Submit(MaxJobs)

\* Mutant of PoolHasIdleWorker: the pool starts a thread for every call.
PoolUnbounded == TRUE

\* ThreadPoolExecutor(max_workers=2): a call is taken when fewer than
\* max_workers worker threads are busy
PoolHasIdleWorker == Cardinality(workers) < max_workers

\* an idle worker thread of the executor takes the oldest submitted call
WorkerTake ==
    /\ PoolHasIdleWorker
    /\ work_queue # <<>>
    /\ workers' = workers \cup {Head(work_queue)}
    /\ work_queue' = Tail(work_queue)
    /\ Goto(Head(work_queue), "wrapper")
    /\ UNCHANGED <<jobs, locals, globalVars, otherVars>>

\* run_job_wrapper: update_job_status(job_id, "processing", 10, "Starting processing...")
WrapperStart(j) ==
    /\ pc[j] = "wrapper"
    /\ update_job_status(j, "processing", 10, "Starting processing...")
    /\ locals' = [locals EXCEPT ![j].m = 1]
    /\ Goto(j, "check")
    /\ UNCHANGED <<work_queue, workers, globalVars, otherVars>>

\* the constructors that load a model from disk or from the network and do
\* not catch what the load raises
RaisingConstructors == {"transcriber", "analyzer", "chapterizer"}

\* The five "if X is None: X = X()" lines taken as one step: the globals after
\* the lines before line k have run (k = 6: all five lines)
LoadBefore(k) ==
    /\ models' = [n \in DOMAIN models |-> IF n < k /\ models[n] = 0 THEN built[n] + 1 ELSE models[n]]
    /\ built' = [n \in DOMAIN built |-> IF n < k /\ models[n] = 0 THEN built[n] + 1 ELSE built[n]]
    /\ IF 2 < k /\ models[2] = 0
          THEN \E loaded \in BOOLEAN : diarizer_pipeline' = Append(diarizer_pipeline, loaded)
          ELSE UNCHANGED diarizer_pipeline

\* run_full_pipeline, lines 59-63 as one step: every global that is None is constructed
LoadModels(j) ==
    /\ pc[j] = "check"
    /\ LoadBefore(Len(ModelNames) + 1)
    /\ locals' = [locals EXCEPT ![j].m = 0]
    /\ Goto(j, "init")
    /\ UNCHANGED <<jobs, work_queue, workers, db, transcripts, otherVars>>

\* run_full_pipeline, lines 59-63 as one step: the constructor of line k raises.
\* This is outside the try block, so the exception goes to run_job_wrapper.
LoadModelsRaises(j) ==
    /\ pc[j] = "check"
    /\ \E k \in DOMAIN models :
          /\ models[k] = 0
          /\ ModelNames[k] \in RaisingConstructors
          /\ LoadBefore(k)
    /\ locals' = [locals EXCEPT ![j].e = "model load failed", ![j].m = 0]
    /\ Goto(j, "wrapper_except")
    /\ UNCHANGED <<jobs, work_queue, workers, db, transcripts, otherVars>>

\* where a job goes once model number n is in place
AfterModel(j, n) ==
    IF n < Len(ModelNames)
        THEN /\ locals' = [locals EXCEPT ![j].m = n + 1]
             /\ Goto(j, "check")
        ELSE /\ locals' = [locals EXCEPT ![j].m = 0]
             /\ Goto(j, "init")

\* run_full_pipeline: "if transcriber is None:" and its four siblings, the test alone
CheckModel(j) ==
    /\ pc[j] = "check"
    /\ IF models[locals[j].m] = 0
          THEN Goto(j, "construct") /\ UNCHANGED locals
          ELSE AfterModel(j, locals[j].m)
    /\ UNCHANGED <<jobs, work_queue, workers, globalVars, otherVars>>

\* "transcriber = Transcriber()" and its four siblings: the constructor returns
\* and the global is assigned. A Diarizer comes with or without its pipeline.
ConstructModel(j) ==
    /\ pc[j] = "construct"
    /\ LET n == locals[j].m
       IN  /\ built' = [built EXCEPT ![n] = @ + 1]
           /\ models' = [models EXCEPT ![n] = built[n] + 1]
           /\ IF ModelNames[n] = "diarizer"
                 THEN \E loaded \in BOOLEAN : diarizer_pipeline' = Append(diarizer_pipeline, loaded)
                 ELSE UNCHANGED diarizer_pipeline
           /\ AfterModel(j, n)
    /\ UNCHANGED <<jobs, work_queue, workers, db, transcripts, otherVars>>

\* a constructor raises: outside the try block of run_full_pipeline, so the
\* exception goes straight to run_job_wrapper
ConstructRaises(j) ==
    /\ pc[j] = "construct"
    /\ ModelNames[locals[j].m] \in RaisingConstructors
    /\ locals' = [locals EXCEPT ![j].e = "model load failed", ![j].m = 0]
    /\ Goto(j, "wrapper_except")
    /\ UNCHANGED <<jobs, work_queue, workers, globalVars, otherVars>>

\* update_job_status(job_id, "processing", 10, "Initializing pipeline..."), then
\* the test of the argument is_url
Initializing(j) ==
    \E is_url \in BOOLEAN :
        Report(j, "init", "processing", 10, "Initializing pipeline...",
               IF is_url THEN "dl15" ELSE "t30")

Downloading(j) == Report(j, "dl15", "processing", 15, "Downloading media...", "download")

\* Downloader.download_url returns a file path
DownloadOk(j) ==
    /\ pc[j] = "download"
    /\ Goto(j, "t30")
    /\ UNCHANGED <<jobs, work_queue, workers, locals, globalVars, otherVars>>

\* Downloader.download_url returns no file path
DownloadFails(j) == Raise(j, "download", "Download failed")

Transcribing(j) == Report(j, "t30", "processing", 30, "Transcribing (Optimized)...", "t20")

\* Transcriber.transcribe, its own status update
TranscriberStatus(j) ==
    Report(j, "t20", "processing", 20, "Transcribing audio (Faster-Whisper)...", "transcribe")

\* Transcriber.transcribe returns text and segments
TranscribeOk(j) ==
    /\ pc[j] = "transcribe"
    /\ locals' = [locals EXCEPT ![j].segments = "asr"]
    /\ Goto(j, "d50")
    /\ UNCHANGED <<jobs, work_queue, workers, globalVars, otherVars>>

\* Transcriber.transcribe raises Exception("Transcription failed: ...")
TranscribeRaises(j) == Raise(j, "transcribe", "Transcription failed")

Diarizing(j) == Report(j, "d50", "processing", 50, "Diarizing (Detecting Speakers)...", "d40")

\* Diarizer.diarize, its first status update
DiarizerStatus(j) == Report(j, "d40", "processing", 40, "Diarizing speakers...", "diarize")

\* the Diarizer instance the global names
TheDiarizer == models[2]

\* Diarizer.diarize returns: the status it writes last and the list it returns
DiarizeReturns(j, status, progress, message, turns) ==
    /\ pc[j] = "diarize"
    /\ update_job_status(j, status, progress, message)
    /\ locals' = [locals EXCEPT ![j].diarization_segments = turns]
    /\ Goto(j, "a55")
    /\ UNCHANGED <<work_queue, workers, models, built, db, transcripts, otherVars>>

\* self.pipeline is None and loading it again fails
DiarizeUnavailable(j) ==
    /\ pc[j] = "diarize"
    /\ ~diarizer_pipeline[TheDiarizer]
    /\ DiarizeReturns(j, "failed", 100, "Diarization pipeline not available.", "empty")
    /\ UNCHANGED diarizer_pipeline

\* the pipeline is there (or is loaded now); what running it can do
DiarizeRuns(j, status, progress, message, turns) ==
    /\ pc[j] = "diarize"
    /\ diarizer_pipeline' = [diarizer_pipeline EXCEPT ![TheDiarizer] = TRUE]
    /\ DiarizeReturns(j, status, progress, message, turns)

\* self.pipeline(file_path) raises
DiarizeRaises(j) == DiarizeRuns(j, "failed", 100, "Diarization failed", "empty")

\* the diarization has no turns
DiarizeNoTurns(j) == DiarizeRuns(j, "processing", 60, "No speakers detected.", "empty")

\* the diarization has turns: _postprocess_segments, then "completed"
DiarizeOk(j) == DiarizeRuns(j, "completed", 100, "Diarization completed.", "turns")

Aligning(j) ==
    Report(j, "a55", "processing", 55, "Aligning transcript with speakers...", "align")

\* Mutant of AlignedSegments: the aligner is called whatever diarize returned.
AlignedSegmentsAlways(segs, turns) == "aligned"

\* "if diarization_segments: segments = aligned", else the segments stay as they are
AlignedSegments(segs, turns) == IF turns = "turns" THEN "aligned" ELSE segs

\* Mutant of Align: with no turns the pipeline goes back to diarize once more.
AlignOrDiarizeAgain(j) ==
    /\ pc[j] = "align"
    /\ locals' = [locals EXCEPT ![j].segments =
                     AlignedSegments(locals[j].segments, locals[j].diarization_segments)]
    /\ Goto(j, IF locals[j].diarization_segments = "empty" THEN "d50" ELSE "s70")
    /\ UNCHANGED <<jobs, work_queue, workers, globalVars, otherVars>>

Align(j) ==
    /\ pc[j] = "align"
    /\ locals' = [locals EXCEPT ![j].segments =
                     AlignedSegments(locals[j].segments, locals[j].diarization_segments)]
    /\ Goto(j, "s70")
    /\ UNCHANGED <<jobs, work_queue, workers, globalVars, otherVars>>

Summarizing(j) == Report(j, "s70", "processing", 70, "Summarizing...", "s60")

\* Summarizer.summarize, its own status update
SummarizerStatus(j) == Report(j, "s60", "processing", 60, "Summarizing content...", "summarize")

\* Summarizer.summarize returns a string: the summary, or a note that it failed
Summarize(j) ==
    /\ pc[j] = "summarize"
    /\ locals' = [locals EXCEPT ![j].summary = "summary"]
    /\ Goto(j, "n80")
    /\ UNCHANGED <<jobs, work_queue, workers, globalVars, otherVars>>

Analyzing(j) == Report(j, "n80", "processing", 80, "Analyzing sentiment...", "analyze")

\* Analyzer.analyze_sentiment returns the scores
Analyze(j) ==
    /\ pc[j] = "analyze"
    /\ locals' = [locals EXCEPT ![j].sentiment = "scores"]
    /\ Goto(j, "c82")
    /\ UNCHANGED <<jobs, work_queue, workers, globalVars, otherVars>>

Segmenting(j) == Report(j, "c82", "processing", 82, "Segmenting chapters...", "process")

\* Chapterizer.process with no segments: return []
ProcessNoSegments(j) ==
    /\ pc[j] = "process"
    /\ locals' = [locals EXCEPT ![j].chapters = 0]
    /\ Goto(j, "finalize")
    /\ UNCHANGED <<jobs, work_queue, workers, globalVars, otherVars>>

\* Chapterizer.process with segments: status update, chunking, and the
\* one-chapter return when there are fewer than 2 chunks
ProcessSegments(j) ==
    /\ pc[j] = "process"
    /\ update_job_status(j, "processing", 82, "Generating embeddings for segmentation...")
    /\ \E short \in BOOLEAN :
          IF short
              THEN /\ locals' = [locals EXCEPT ![j].chapters = 1]
                   /\ Goto(j, "finalize")
              ELSE /\ UNCHANGED locals
                   /\ Goto(j, "embed")
    /\ UNCHANGED <<work_queue, workers, globalVars, otherVars>>

\* embed_model.encode returns; status update
Embedded(j) == Report(j, "embed", "processing", 85, "identifying topic boundaries...", "cluster")

\* embed_model.encode raises; Chapterizer.process does not catch it
EmbedFails(j) == Raise(j, "embed", "embedding failed")

\* clustering and _labels_to_chapters; status update
Clustered(j) ==
    /\ pc[j] = "cluster"
    /\ update_job_status(j, "processing", 88, "Generating chapter titles...")
    /\ \E n \in 1..MaxChapters : locals' = [locals EXCEPT ![j].chapters = n, ![j].i = 0]
    /\ Goto(j, "title")
    /\ UNCHANGED <<work_queue, workers, globalVars, otherVars>>

\* one iteration of the titling loop, and the return after the last one
Titled(j) ==
    /\ pc[j] = "title"
    /\ LET i == locals[j].i
           n == locals[j].chapters
       IN  /\ update_job_status(j, "processing", 88 + ((i * 5) \div n),
                                "Titled chapter " \o ToString(i + 1) \o "/" \o ToString(n))
           /\ IF i + 1 = n
                 THEN locals' = [locals EXCEPT ![j].i = 0] /\ Goto(j, "finalize")
                 ELSE locals' = [locals EXCEPT ![j].i = i + 1] /\ Goto(j, "title")
    /\ UNCHANGED <<work_queue, workers, globalVars, otherVars>>

\* the result dict of run_full_pipeline
ResultOf(l) ==
    [transcript |-> l.segments, summary |-> l.summary, sentiment |-> l.sentiment,
     chapters |-> l.chapters]

\* str(result.get("_id", "local"))
TranscriptId(j) == IF db THEN ToString(j) ELSE "local"

\* "8. Finalize": build result; insert it when there is a database
Finalize(j) ==
    /\ pc[j] = "finalize"
    /\ locals' = [locals EXCEPT ![j].result = ResultOf(locals[j])]
    /\ transcripts' = IF db THEN transcripts \cup {j} ELSE transcripts
    /\ Goto(j, "done100")
    /\ UNCHANGED <<jobs, work_queue, workers, models, built, diarizer_pipeline, db, otherVars>>

\* the insert into the database raises
SaveFails(j) ==
    /\ db
    /\ Raise(j, "finalize", "insert failed")

\* update_job_status(job_id, "completed", 100, "Done!", result=...); return result;
\* run_job_wrapper returns and the worker thread is free
Done(j) ==
    /\ pc[j] = "done100"
    /\ update_job_status_result(j, "completed", 100, "Done!", [transcript_id |-> TranscriptId(j)])
    /\ Release(j)
    /\ Goto(j, "done")
    /\ UNCHANGED <<work_queue, globalVars, otherVars>>

\* except Exception as e: update_job_status(job_id, "failed", 0, str(e)); raise e
PipelineExcept(j) ==
    /\ pc[j] = "except"
    /\ update_job_status(j, "failed", 0, locals[j].e)
    /\ Goto(j, "wrapper_except")
    /\ UNCHANGED <<work_queue, workers, locals, globalVars, otherVars>>

\* run_job_wrapper without its except block: the exception ends the call and
\* the job entry keeps what was last written
WrapperExceptSilent(j) ==
    /\ pc[j] = "wrapper_except"
    /\ Release(j)
    /\ Goto(j, "done")
    /\ UNCHANGED <<jobs, work_queue, globalVars, otherVars>>

\* run_job_wrapper: except Exception as e: update_job_status(job_id, "failed", 0,
\* f"Error: {str(e)}"); the worker thread is free
WrapperExcept(j) ==
    /\ pc[j] = "wrapper_except"
    /\ update_job_status(j, "failed", 0, "Error: " \o locals[j].e)
    /\ Release(j)
    /\ Goto(j, "done")
    /\ UNCHANGED <<work_queue, globalVars, otherVars>>

\* the steps of run_full_pipeline from "Initializing pipeline..." on
PipelineStep(j) ==
    \/ Initializing(j)
    \/ Downloading(j)
    \/ DownloadOk(j)
    \/ DownloadFails(j)
    \/ Transcribing(j)
    \/ TranscriberStatus(j)
    \/ TranscribeOk(j)
    \/ TranscribeRaises(j)
    \/ Diarizing(j)
    \/ DiarizerStatus(j)
    \/ DiarizeUnavailable(j)
    \/ DiarizeRaises(j)
    \/ DiarizeNoTurns(j)
    \/ DiarizeOk(j)
    \/ Aligning(j)
    \/ Align(j)
    \/ Summarizing(j)
    \/ SummarizerStatus(j)
    \/ Summarize(j)
    \/ Analyzing(j)
    \/ Analyze(j)
    \/ Segmenting(j)
    \/ ProcessNoSegments(j)
    \/ ProcessSegments(j)
    \/ Embedded(j)
    \/ EmbedFails(j)
    \/ Clustered(j)
    \/ Titled(j)
    \/ Finalize(j)
    \/ SaveFails(j)
    \/ Done(j)
    \/ PipelineExcept(j)

\* the steps of one job, the model loading taken as one step
JobStep(j) ==
    \/ WrapperStart(j)
    \/ LoadModels(j)
    \/ LoadModelsRaises(j)
    \/ PipelineStep(j)
    \/ WrapperExcept(j)

Next ==
    \/ StartJob
    \/ WorkerTake
    \/ \E j \in Jobs : JobStep(j)

\* Jobs run by the pool of worker threads, every status update a step.
Spec == PipeInit /\ [][Next]_vars

\* The worker threads are scheduled fairly and every collaborator call returns
\* or raises: an idle worker takes a waiting call, a running job takes its next step.
FairSpec ==
    /\ Spec
    /\ WF_vars(WorkerTake)
    /\ \A j \in 1..MaxJobs : WF_vars(j \in Jobs /\ JobStep(j))

----------------------------------------------------------------------------
(* Worker pool: the model loading step by step, the rest of a run as one step *)

\* start_job, up to MaxPoolJobs calls
StartPoolJob == Submit(MaxPoolJobs)

\* str(e) of whatever a stage inside the try block of run_full_pipeline raised;
\* which stage it was is not followed when the run is taken as one step
StageError == "a stage raised"

\* diarize, when the run gets that far, may load the pipeline its instance lacks
DiarizerAfterRun ==
    \/ UNCHANGED diarizer_pipeline
    \/ diarizer_pipeline' = [diarizer_pipeline EXCEPT ![TheDiarizer] = TRUE]

\* run_full_pipeline from line 65 to its return, as one step: the result is
\* inserted, the job is "completed", the worker thread is free
RunPipeline(j) ==
    /\ pc[j] = "init"
    /\ update_job_status_result(j, "completed", 100, "Done!", [transcript_id |-> TranscriptId(j)])
    /\ transcripts' = IF db THEN transcripts \cup {j} ELSE transcripts
    /\ DiarizerAfterRun
    /\ Release(j)
    /\ Goto(j, "done")
    /\ UNCHANGED <<work_queue, models, built, db, otherVars>>

\* run_full_pipeline from line 65 on, as one step: a stage raises, both except
\* blocks report "failed", the worker thread is free
RunPipelineRaises(j) ==
    /\ pc[j] = "init"
    /\ update_job_status(j, "failed", 0, "Error: " \o StageError)
    /\ DiarizerAfterRun
    /\ Release(j)
    /\ Goto(j, "done")
    /\ UNCHANGED <<work_queue, models, built, db, transcripts, otherVars>>

\* the steps of one job, the model loading test by test
PoolJobStep(j) ==
    /\ j \in Jobs
    /\ \/ WrapperStart(j)
       \/ CheckModel(j)
       \/ ConstructModel(j)
       \/ ConstructRaises(j)
       \/ RunPipeline(j)
       \/ RunPipelineRaises(j)
       \/ WrapperExcept(j)

PoolNext ==
    \/ StartPoolJob
    \/ WorkerTake
    \/ \E j \in 1..MaxPoolJobs : PoolJobStep(j)

SpecPool == PipeInit /\ [][PoolNext]_vars

\* the steps of one job as the executor sees them: run_job_wrapper starts, the
\* models are loaded (or a constructor raises), the pipeline runs to its end
\* (or a stage raises), the wrapper reports the exception
QueueJobStep(j) ==
    /\ j \in Jobs
    /\ \/ WrapperStart(j)
       \/ LoadModels(j)
       \/ LoadModelsRaises(j)
       \/ RunPipeline(j)
       \/ RunPipelineRaises(j)
       \/ WrapperExcept(j)

QueueNext ==
    \/ StartPoolJob
    \/ WorkerTake
    \/ \E j \in 1..MaxPoolJobs : QueueJobStep(j)

\* The executor and its queue of submitted calls, a call being a few large steps.
SpecQueue == PipeInit /\ [][QueueNext]_vars

\* The worker threads are scheduled fairly and every call a job makes returns
\* or raises: an idle worker takes a waiting call, a running job takes its next step.
FairSpecQueue ==
    /\ SpecQueue
    /\ WF_vars(WorkerTake)
    /\ \A j \in 1..MaxPoolJobs : WF_vars(QueueJobStep(j))

----------------------------------------------------------------------------
(* Normalizer: properties *)

Intervals(segs) == [i \in DOMAIN segs |-> <<segs[i].start, segs[i].end>>]

SortedByStart(segs) == \A i \in 1..(Len(segs) - 1) : segs[i].start <= segs[i + 1].start

NoOverlap(segs) == \A i \in 1..(Len(segs) - 1) : segs[i].end <= segs[i + 1].start

Labels(segs) == { segs[i].speaker : i \in DOMAIN segs }

\* C1: applying _postprocess_segments to its own output yields the
\* same list of (start, end) intervals; a second pass never merges anything further.
NormalizerIdempotent ==
    npc = "redone" => Intervals(again) = Intervals(result)

\* C2: every output turn has duration >= min_segment_duration,
\* unless the output consists of exactly one turn.
DurationInvariantUnlessSingle ==
    npc = "done" =>
        (Len(result) # 1 =>
            \A i \in DOMAIN result : segment_duration(result[i]) >= min_segment_duration)

\* What the second pass does guarantee: every output turn other than the first
\* has duration >= min_segment_duration.
DurationInvariantExceptFirst ==
    npc = "done" =>
        \A i \in 2..Len(result) : segment_duration(result[i]) >= min_segment_duration

InputDisjoint ==
    LET segs == PostSegs(raw0)
    IN  \A i, j \in DOMAIN segs : i < j => segs[i].end <= segs[j].start

LabelStability ==
    npc = "done" =>
        /\ Intervals(result) = Intervals(final)
        /\ result # <<>> => result[1].speaker = SpeakerLabel(1)
        /\ \A i \in DOMAIN result :
              LET seen == { result[j].speaker : j \in 1..(i - 1) }
              IN  \/ result[i].speaker \in seen
                  \/ result[i].speaker = SpeakerLabel(Cardinality(seen) + 1)
        /\ \A i, j \in DOMAIN result :
              (result[i].speaker = result[j].speaker) <=> (final[i].speaker = final[j].speaker)

\* C4 witness: three output turns, the third one by the first turn's speaker.
LabelWitness ==
    /\ npc = "done"
    /\ Len(result) = 3
    /\ result[2].speaker = SpeakerLabel(2)
    /\ result[3].speaker = SpeakerLabel(1)

\* Scenario A: (0.0, 1.0, X), (1.2, 2.0, X), (2.05, 2.1, Y)
ScenarioA ==
    raw0 = << [start |-> 0, end |-> 10000, speaker |-> "X"],
              [start |-> 12000, end |-> 20000, speaker |-> "X"],
              [start |-> 20500, end |-> 21000, speaker |-> "Y"] >>

\* C9 (as claimed): Scenario A gives a first turn (0.0, 2.0, "Speaker 1") and no
\* output turn carries a label for Y.
ScenarioAEndsAtTwo ==
    (npc = "done" /\ ScenarioA) =>
        /\ result # <<>>
        /\ result[1] = [start |-> 0, end |-> 20000, speaker |-> SpeakerLabel(1)]
        /\ Labels(result) = {SpeakerLabel(1)}

\* C9 (amended): Scenario A gives exactly one turn, (0.0, 2.1, "Speaker 1"): the
\* absorbed Y fragment extends the turn's end to 2.1, and no output turn carries
\* a label for Y.
ScenarioAAbsorbed ==
    (npc = "done" /\ ScenarioA) =>
        result = << [start |-> 0, end |-> 21000, speaker |-> SpeakerLabel(1)] >>

\* C9 witness: Scenario A has been normalized, the fragment absorbed in the first pass.
ScenarioAWitness ==
    /\ npc = "done"
    /\ ScenarioA
    /\ Len(merged) = 1

\* C19: after the call the caller's list and every raw turn in it are as they
\* were before the call, sub-millisecond digits of the timestamps included.
NormalizerPurity ==
    npc \in {"done", "redone"} => raw_segments = raw0

\* C22: in the returned list no two adjacent turns have the same label and a
\* gap (next.start - previous.end) of at most merge_gap.
SameSpeakerMergeComplete ==
    npc \in {"done", "redone"} =>
        \A i \in 1..(Len(result) - 1) :
            ~(/\ result[i].speaker = result[i + 1].speaker
              /\ result[i + 1].start - result[i].end <= merge_gap)

\* A turn handled by a pass is afterwards part of the last entry of the pass's
\* list, whether it was appended or absorbed: the index in merged of the entry
\* turn n of segs (the sorted and rounded raw turns) is part of, and the index
\* in final of the entry merged[m] is part of
MergedIndex(segs, n) == Len(MergePass(SubSeq(segs, 1, n)))
FinalIndex(m) == Len(FinalPass(SubSeq(merged, 1, m)))

\* raw turn n was absorbed by the first pass into entry m of another speaker
CrossAbsorbedFirst(segs, n, m) ==
    /\ n > 1
    /\ MergedIndex(segs, n - 1) = m
    /\ segs[n].speaker # merged[m].speaker

\* the gap the first pass computed for raw turn n
FirstPassGap(segs, n) ==
    LET acc == MergePass(SubSeq(segs, 1, n - 1))
    IN  segs[n].start - acc[Len(acc)].end

\* merged[m] was absorbed by the second pass
AbsorbedSecond(m) == m > 1 /\ FinalIndex(m) = FinalIndex(m - 1)

\* the gap between merged[m] and the entry of final the second pass put it into
SecondPassGap(m) ==
    LET acc == FinalPass(SubSeq(merged, 1, m - 1))
    IN  merged[m].start - acc[Len(acc)].end

\* C23 as stated: a raw turn is part of an output turn of another speaker only
\* if its duration is below min_segment_duration and its gap to the turn it was
\* merged into is at most merge_gap. (final is the output before the
\* relabelling, which is one-to-one.)
CrossSpeakerMergesLimited ==
    npc \in {"done", "redone"} =>
        LET segs == PostSegs(raw0)
        IN  \A n \in DOMAIN segs :
                LET m == MergedIndex(segs, n)
                IN  segs[n].speaker # final[FinalIndex(m)].speaker =>
                        /\ segment_duration(segs[n]) < min_segment_duration
                        /\ IF CrossAbsorbedFirst(segs, n, m)
                               THEN FirstPassGap(segs, n) <= merge_gap
                               ELSE SecondPassGap(m) <= merge_gap

\* C23 amended: a raw turn is part of an output turn of another speaker only if
\* its duration is below min_segment_duration and either the first pass
\* absorbed it over a gap of at most merge_gap, or the turn it belongs to after
\* the first pass was still shorter than min_segment_duration and the second
\* pass merged that turn into the preceding one, whatever the gap. A raw turn
\* of duration >= min_segment_duration is never part of another speaker's turn.
CrossSpeakerMergesOnlyShort ==
    npc \in {"done", "redone"} =>
        LET segs == PostSegs(raw0)
        IN  \A n \in DOMAIN segs :
                LET m == MergedIndex(segs, n)
                IN  segs[n].speaker # final[FinalIndex(m)].speaker =>
                        /\ segment_duration(segs[n]) < min_segment_duration
                        /\ \/ CrossAbsorbedFirst(segs, n, m) /\ FirstPassGap(segs, n) <= merge_gap
                           \/ /\ AbsorbedSecond(m)
                              /\ segment_duration(merged[m]) < min_segment_duration

\* C23 witness: one short turn was absorbed by the first pass into another
\* speaker's turn, and another was merged by the second pass into another
\* speaker's turn over a gap larger than merge_gap.
CrossSpeakerMergesWitness ==
    /\ npc = "done"
    /\ LET segs == PostSegs(raw0)
       IN  /\ \E n \in DOMAIN segs :
                 CrossAbsorbedFirst(segs, n, MergedIndex(segs, n))
           /\ \E n \in DOMAIN segs :
                 LET m == MergedIndex(segs, n)
                 IN  /\ segs[n].speaker # final[FinalIndex(m)].speaker
                     /\ ~CrossAbsorbedFirst(segs, n, m)
                     /\ SecondPassGap(m) > merge_gap

\* C29: for a non-empty input the interval of every raw turn, rounded to the
\* millisecond, lies inside the interval of some returned turn; there are at
\* least one and at most as many returned turns as raw turns; and the earliest
\* returned start is the earliest (rounded) raw start.
NormalizerCoverage ==
    (npc \in {"done", "redone"} /\ raw0 # <<>>) =>
        /\ \A n \in DOMAIN raw0 :
              \E k \in DOMAIN result :
                  /\ result[k].start <= round_time(raw0[n].start)
                  /\ round_time(raw0[n].end) <= result[k].end
        /\ 1 <= Len(result) /\ Len(result) <= Len(raw0)
        /\ \E n \in DOMAIN raw0 : result[1].start = round_time(raw0[n].start)
        /\ \A n \in DOMAIN raw0 : result[1].start <= round_time(raw0[n].start)
        /\ \A k \in DOMAIN result : result[1].start <= result[k].start

\* C29 witness: three raw turns given out of time order, one with
\* sub-millisecond digits, came back as fewer turns.
NormalizerCoverageWitness ==
    /\ npc = "done"
    /\ Len(raw0) = 3
    /\ raw0[1].start > raw0[2].start
    /\ \E n \in DOMAIN raw0 : round_time(raw0[n].start) # raw0[n].start
    /\ Len(result) < Len(raw0)

----------------------------------------------------------------------------
(* Aligner: properties *)

\* a text without its whitespace atoms
RECURSIVE NoWhitespace(_)
NoWhitespace(t) ==
    IF t = <<>> THEN <<>>
    ELSE IF t[1] = " " THEN NoWhitespace(Tail(t))
    ELSE <<t[1]>> \o NoWhitespace(Tail(t))

\* the texts of the spans, one after the other
RECURSIVE ConcatTexts(_)
ConcatTexts(spans) ==
    IF spans = <<>> THEN <<>>
    ELSE ConcatTexts(SubSeq(spans, 1, Len(spans) - 1)) \o spans[Len(spans)].text

\* the closed interval of turn t contains the midpoint of word w
InTurn(t, w) == 2 * t.start <= Midpoint2(w) /\ Midpoint2(w) <= 2 * t.end

\* C5: the span texts read one after the other are, whitespace ignored, the
\* texts of the input words (and pseudo-words) in their original order: no word
\* is dropped or duplicated.
AlignerCoverage ==
    apc = "done" =>
        NoWhitespace(ConcatTexts(aligned)) = NoWhitespace(JoinWords(Flatten(asr_segments)))

\* C5 witness: several spans were returned for words and a pseudo-word.
CoverageWitness ==
    /\ apc = "done"
    /\ Len(aligned) >= 2
    /\ Len(all_words) >= 4
    /\ \E i \in DOMAIN asr_segments : "words" \notin DOMAIN asr_segments[i]

\* C6: no two consecutive returned spans have the same speaker label.
AlignerGrouping ==
    apc = "done" =>
        \A i \in 1..(Len(aligned) - 1) : aligned[i].speaker # aligned[i + 1].speaker

\* C6 witness: several spans were returned, one of them made of several words.
GroupingWitness ==
    /\ apc = "done"
    /\ Len(aligned) >= 2
    /\ Len(all_words) > Len(aligned)

\* Scenario B: the three words of the first test segment, two turns
ScenarioB ==
    /\ asr_segments = <<SegHello>>
    /\ diarization_segments =
          << [start |-> 0, end |-> 12000, speaker |-> SpeakerLabel(1)],
             [start |-> 14000, end |-> 30000, speaker |-> SpeakerLabel(2)] >>

\* the input of test_alignment
TestAlignment ==
    /\ asr_segments = <<SegHello, SegSpeaking>>
    /\ diarization_segments =
          << [start |-> 0, end |-> 12000, speaker |-> "SPEAKER_01"],
             [start |-> 14000, end |-> 30000, speaker |-> "SPEAKER_02"] >>

OrderedWords(ws) ==
    \A i \in DOMAIN ws :
        /\ ws[i].start <= ws[i].end
        /\ i < Len(ws) => ws[i].end <= ws[i + 1].start

\* the indices of the words after which the speaker changes, and of the last word
RunEnds(ws, turns) ==
    { i \in DOMAIN ws :
        \/ i = Len(ws)
        \/ get_speaker_at(turns, Midpoint2(ws[i])) # get_speaker_at(turns, Midpoint2(ws[i + 1])) }

\* the k-th smallest member of a set of numbers
Kth(S, k) == CHOOSE e \in S : Cardinality({ x \in S : x <= e }) = k

\* C15: for words in time order with non-overlapping intervals and any turns,
\* there is one returned span per run of words with the same speaker, each span
\* starts at its first word's start and ends at its last word's end, and the
\* spans are in non-decreasing order of start and do not overlap.
AlignedOrdering ==
    (apc = "done" /\ OrderedWords(Flatten(asr_segments))) =>
        LET ws == Flatten(asr_segments)
            ends == RunEnds(ws, diarization_segments)
        IN  /\ Len(aligned) = Cardinality(ends)
            /\ \A k \in DOMAIN aligned :
                  /\ aligned[k].start = ws[IF k = 1 THEN 1 ELSE Kth(ends, k - 1) + 1].start
                  /\ aligned[k].end = ws[Kth(ends, k)].end
                  /\ aligned[k].start <= aligned[k].end
            /\ \A k \in 1..(Len(aligned) - 1) :
                  /\ aligned[k].start <= aligned[k + 1].start
                  /\ aligned[k].end <= aligned[k + 1].start

\* C15 witness: time-ordered words from two segments came back as several
\* spans, one of them made of several words.
AlignedOrderingWitness ==
    /\ apc = "done"
    /\ OrderedWords(Flatten(asr_segments))
    /\ Len(asr_segments) = 2
    /\ Len(aligned) >= 2
    /\ \E k \in DOMAIN aligned : \E i \in DOMAIN all_words :
          /\ aligned[k].start = all_words[i].start
          /\ aligned[k].end > all_words[i].end

\* label lab is what the lookup owes word w: the label of a turn containing w's
\* midpoint with no earlier-listed turn containing it, or 'Speaker' when no
\* turn contains it
OwedLabel(turns, w, lab) ==
    IF \E i \in DOMAIN turns : InTurn(turns[i], w)
        THEN \E i \in DOMAIN turns :
                /\ InTurn(turns[i], w)
                /\ \A j \in 1..(i - 1) : ~InTurn(turns[j], w)
                /\ lab = turns[i].speaker
        ELSE lab = "Speaker"

HasWords(seg) == "words" \in DOMAIN seg /\ seg.words # <<>>

\* the number of entries of all_words owed to the first n segments
RECURSIVE WordsBefore(_, _)
WordsBefore(segs, n) ==
    IF n = 0 THEN 0
    ELSE WordsBefore(segs, n - 1) + (IF HasWords(segs[n]) THEN Len(segs[n].words) ELSE 1)

\* C24: in all_words every transcript segment has its words in order when it
\* has per-word timing, and otherwise exactly one pseudo-word with the
\* segment's start, end and text; nothing else is in all_words; and the
\* returned list is empty exactly when there are no transcript segments.
SegmentFallback ==
    /\ apc \in {"loop", "emit", "done"} =>
          /\ Len(all_words) = WordsBefore(asr_segments, Len(asr_segments))
          /\ \A n \in DOMAIN asr_segments :
                LET seg == asr_segments[n]
                    off == WordsBefore(asr_segments, n - 1)
                IN  IF HasWords(seg)
                        THEN \A i \in DOMAIN seg.words : all_words[off + i] = seg.words[i]
                        ELSE /\ all_words[off + 1].start = seg.start
                             /\ all_words[off + 1].end = seg.end
                             /\ all_words[off + 1].word = seg.text
                             /\ WordsBefore(asr_segments, n) = off + 1
    /\ apc = "done" => (aligned = <<>> <=> asr_segments = <<>>)

\* C24 witness: a segment without a words key and a segment with an empty words
\* list were aligned, each as one pseudo-word, along with nothing else.
SegmentFallbackWitness ==
    /\ apc = "done"
    /\ Len(asr_segments) = 2
    /\ "words" \notin DOMAIN asr_segments[1]
    /\ "words" \in DOMAIN asr_segments[2] /\ asr_segments[2].words = <<>>
    /\ Len(all_words) = 2
    /\ aligned # <<>>

----------------------------------------------------------------------------
(* Chapter segmenter: properties *)

\* C7: for non-empty time-ordered units the returned chapters each
\* have start <= end, are ordered by start, contiguous (chapter[i].end =
\* chapter[i+1].start), the first starts at the first unit's start and the last
\* ends at the last unit's end.
SegmenterPartition ==
    (cpc = "returned" /\ segments # <<>>) =>
        /\ final_chapters # <<>>
        /\ \A i \in DOMAIN final_chapters :
              /\ "end" \in DOMAIN final_chapters[i]
              /\ final_chapters[i].start <= final_chapters[i].end
        /\ \A i \in 1..(Len(final_chapters) - 1) :
              /\ final_chapters[i].start <= final_chapters[i + 1].start
              /\ final_chapters[i].end = final_chapters[i + 1].start
        /\ final_chapters[1].start = segments[1].start
        /\ final_chapters[Len(final_chapters)].end = segments[Len(segments)].end

\* What the clustering path does guarantee: with at least 2 chunks the chapters
\* have start <= end, are ordered, do not overlap (end <= next start, the
\* silence between two units at a boundary belonging to no chapter), and span
\* from the first unit's start to the last unit's end.
ClusteredChaptersOrdered ==
    (cpc = "returned" /\ Len(chunked_data) >= 2) =>
        /\ \A i \in DOMAIN final_chapters : final_chapters[i].start <= final_chapters[i].end
        /\ \A i \in 1..(Len(final_chapters) - 1) :
              final_chapters[i].end <= final_chapters[i + 1].start
        /\ final_chapters[1].start = segments[1].start
        /\ final_chapters[Len(final_chapters)].end = segments[Len(segments)].end

\* C8: for any non-empty list of units process returns at least one chapter,
\* and exactly one when chunking yields fewer than 2 chunks, which is the case
\* of 1 to 3 units.
SegmenterFloor ==
    (cpc = "returned" /\ segments # <<>>) =>
        /\ Len(final_chapters) >= 1
        /\ Len(chunk_segments(segments, window_size)) < 2 => Len(final_chapters) = 1
        /\ Len(segments) \in 1..3 <=> Len(chunk_segments(segments, window_size)) < 2

\* C8 witness: the clustering path returned exactly one chapter for several chunks.
FloorWitness ==
    /\ cpc = "returned"
    /\ Len(chunked_data) >= 2
    /\ Len(final_chapters) = 1

\* C11: for N chunks the number of clusters requested is 1 when N < 5 and
\* max(2, floor(0.6 * sqrt(N))) when N >= 5, so 1 <= k <= N for every N >= 2;
\* process requests exactly that number; an input of 2, 3 or 4 chunks is
\* returned as exactly 1 chapter, and N = 5 is the smallest size with k = 2.
TargetChapterCount ==
    /\ \A n \in 2..MaxChunks :
          LET k == determine_optimal_clusters(n)
          IN  /\ n < 5 => k = 1
              /\ n >= 5 => /\ k >= 2
                           /\ 25 * (k + 1) * (k + 1) > 9 * n
                           /\ k > 2 => 25 * k * k <= 9 * n
              /\ 1 <= k /\ k <= n
    /\ determine_optimal_clusters(5) = 2
    /\ cpc \in {"cluster", "title"} \/ (cpc = "returned" /\ Len(chunked_data) >= 2) =>
          num_clusters = determine_optimal_clusters(Len(chunked_data))
    /\ (cpc = "returned" /\ Len(chunked_data) \in 2..4) => Len(final_chapters) = 1

\* C11 witness: a 3-chunk input went through the clustering path and came back
\* as one chapter.
TargetChapterCountWitness ==
    /\ cpc = "returned"
    /\ Len(chunked_data) = 3
    /\ num_clusters = 1
    /\ Len(final_chapters) = 1

\* the outcomes of the title request C14 lists: timeout, exception, a status
\* other than 200, a reply without "response", an empty or whitespace-only one
FailedTitleOutcomes ==
    { o \in TitleOutcomes :
        \/ o.kind \in {"missing", "null", "not json", "status", "timeout", "raise"}
        \/ o.kind = "ok" /\ \A i \in DOMAIN o.response : o.response[i] = " " }

PlaceholderTitles == {<<"Untitled Segment">>, <<"Chapter">>, <<"New Chapter">>}

\* C14: for every chapter range of the clustering path _generate_title returns a
\* non-empty title whatever the request does, and a placeholder for each failed
\* outcome; the titled chapters are the chapter ranges one for one, with the
\* start and end of the range, so their number and times do not depend on the
\* title request.
TitleFailureAbsorbed ==
    /\ \A c \in DOMAIN chapters :
          /\ \A o \in TitleOutcomes : generate_title(chapters[c].text, o) # <<>>
          /\ \A o \in FailedTitleOutcomes :
                generate_title(chapters[c].text, o) \in PlaceholderTitles
    /\ cpc \in {"title", "returned"} /\ chapters # <<>> =>
          /\ Len(final_chapters) = IF cpc = "returned" THEN Len(chapters) ELSE cidx - 1
          /\ \A i \in DOMAIN final_chapters :
                /\ final_chapters[i].start = chapters[i].start
                /\ final_chapters[i].end = chapters[i].end
                /\ final_chapters[i].title # <<>>

\* C14 witness: two chapters long enough to be titled came back, the first
\* request failed and the second gave a title.
TitleFailureAbsorbedWitness ==
    /\ cpc = "returned"
    /\ Len(final_chapters) = 2
    /\ chapters[1].text.len >= 50
    /\ final_chapters[1].title = <<"New Chapter">>
    /\ final_chapters[2].title = <<"T">>

\* C20: on the clustering path every cluster is a contiguous run of chunk
\* indices and the number of chapter ranges equals the requested number of
\* clusters.
ContiguousClusters ==
    (cpc \in {"title", "returned"} /\ Len(chunked_data) >= 2) =>
        /\ \A a, b, c \in DOMAIN labels :
              (a < b /\ b < c /\ labels[a] = labels[c]) => labels[b] = labels[a]
        /\ Len(chapters) = num_clusters

\* C16: with fewer than 2 chunks (1 to 3 units) process returns one chapter
\* with the fields start, end, title and summary, from the first unit's start to
\* the last unit's end, titled "Overview".
ShortCircuitSpansInput ==
    (cpc = "returned" /\ segments # <<>> /\ Len(chunked_data) < 2) =>
        /\ Len(segments) \in 1..3
        /\ Len(final_chapters) = 1
        /\ final_chapters[1].title = <<"Overview">>
        /\ DOMAIN final_chapters[1] = {"start", "end", "title", "summary"}
        /\ final_chapters[1].start = segments[1].start
        /\ final_chapters[1].end = segments[Len(segments)].end

----------------------------------------------------------------------------
(* Pipeline and worker pool: properties *)

\* the jobs a worker thread is running
Executing == { j \in Jobs : pc[j] \notin {"queued", "done"} }

\* C18: at most max_workers = 2 jobs execute their pipeline at any time; a job
\* no worker has taken keeps the status "queued" and is taken only when fewer
\* than 2 jobs execute; and every queued job is eventually started.
BoundedParallelism ==
    /\ [](Cardinality(Executing) <= max_workers)
    /\ [](\A j \in Jobs : pc[j] = "queued" => jobs[j].status = "queued")
    /\ [][\A j \in Jobs : (pc[j] = "queued" /\ pc'[j] # "queued") =>
             Cardinality(Executing) < max_workers]_vars
    /\ \A j \in 1..MaxPoolJobs : (j \in Jobs /\ pc[j] = "queued") ~> (j \in Jobs /\ pc[j] # "queued")

\* C18 witness: two jobs execute while a third one waits in the queue.
BoundedParallelismWitness ==
    /\ Cardinality(Executing) = max_workers
    /\ \E j \in Jobs : pc[j] = "queued" /\ jobs[j].status = "queued"

\* The positions of run_job_wrapper and run_full_pipeline in program order.
PcOrder ==
    <<"queued", "wrapper", "check", "construct", "init", "dl15", "download",
      "t30", "t20", "transcribe", "d50", "d40", "diarize", "a55", "align",
      "s70", "s60", "summarize", "n80", "analyze", "c82", "process", "embed",
      "cluster", "title", "finalize", "done100", "except", "wrapper_except", "done">>

Rank(p) == CHOOSE i \in 1..Len(PcOrder) : PcOrder[i] = p

\* job j is past the alignment step and still inside run_full_pipeline's try block
AfterAlign(j) == Rank(pc[j]) > Rank("align") /\ Rank(pc[j]) <= Rank("done100")

DiarizationFailed(j) == locals[j].diarization_segments = "empty"

\* C12: Diarizer.diarize never raises: it always returns to the pipeline, with an
\* empty list unless it reports "Diarization completed."; after an empty list the
\* alignment leaves the transcriber's segments as they are, summarization and
\* chaptering run on them, and the job is completed with a result built from them.
DiarizationFailureTolerated ==
    /\ [][\A j \in 1..MaxJobs :
            (j \in Jobs /\ pc[j] = "diarize" /\ pc'[j] # "diarize") =>
                /\ pc'[j] = "a55"
                /\ locals'[j].diarization_segments \in {"empty", "turns"}
                /\ (locals'[j].diarization_segments = "empty")
                       <=> (jobs'[j].message # "Diarization completed.")]_vars
    /\ [](\A j \in Jobs : (AfterAlign(j) /\ DiarizationFailed(j)) =>
            /\ locals[j].segments = "asr"
            /\ Rank(pc[j]) > Rank("summarize") => locals[j].summary = "summary"
            /\ Rank(pc[j]) > Rank("title") =>
                  /\ locals[j].chapters >= 0
                  /\ pc[j] = "done100" =>
                        locals[j].result = ResultOf(locals[j]))
    /\ [][\A j \in 1..MaxJobs :
            (j \in Jobs /\ pc[j] = "done100" /\ pc'[j] # "done100") =>
                /\ pc'[j] = "done"
                /\ jobs'[j].status = "completed"
                /\ "result" \in DOMAIN jobs'[j]]_vars

\* a job whose diarization failed has its result and is about to be completed
DiarizationFailureToleratedWitness ==
    \E j \in Jobs :
        /\ pc[j] = "done100"
        /\ DiarizationFailed(j)
        /\ locals[j].result.transcript = "asr"
        /\ locals[j].result.chapters >= 1

\* C13: a job in whose run the embedding call failed has an entry with a result.
EmbeddingFailureConfined ==
    \A j \in Jobs :
        (pc[j] = "done" /\ jobs[j].message = "Error: embedding failed") =>
            "result" \in DOMAIN jobs[j]

\* C17: a step of a job moves it forward in program order (the titling loop stays
\* inside the chapter stage and advances its index), a stage is entered only from
\* the end of the stage before it with that stage's output in hand, and the
\* result is built, saved and stored in the job entry only after the chapter
\* stage has returned its chapters.
StageOrdering ==
    /\ [][\A j \in 1..MaxJobs :
            (j \in Jobs /\ pc'[j] # pc[j]) => Rank(pc'[j]) > Rank(pc[j])]_vars
    /\ [][\A j \in 1..MaxJobs :
            (j \in Jobs /\ pc[j] = "title" /\ pc'[j] = "title" /\ locals'[j] # locals[j]) =>
                locals'[j].i = locals[j].i + 1]_vars
    /\ [][\A j \in 1..MaxJobs :
            (j \in Jobs /\ pc'[j] # pc[j]) =>
                /\ pc'[j] = "d50" => (pc[j] = "transcribe" /\ locals'[j].segments = "asr")
                /\ pc'[j] = "a55" =>
                      (pc[j] = "diarize" /\ locals'[j].diarization_segments # "unset")
                /\ pc'[j] = "s70" => pc[j] = "align"
                /\ pc'[j] = "c82" => (pc[j] = "analyze" /\ locals'[j].summary = "summary")
                /\ pc'[j] = "finalize" =>
                      (pc[j] \in {"process", "title"} /\ locals'[j].chapters >= 0)]_vars
    /\ [](\A j \in Jobs :
            (\/ "result" \in DOMAIN jobs[j]
             \/ j \in transcripts
             \/ locals[j].result # NoResult) =>
                pc[j] \in {"done100", "done", "except", "wrapper_except"})
    /\ [](\A j \in Jobs : "result" \in DOMAIN jobs[j] => pc[j] = "done")

\* a job has run all five stages, titled two chapters, and stored its result
StageOrderingWitness ==
    \E j \in Jobs :
        /\ pc[j] = "done"
        /\ "result" \in DOMAIN jobs[j]
        /\ jobs[j].status = "completed"
        /\ db => j \in transcripts

\* C25: once the entry of a job reads 'completed' or 'failed', no later step
\* changes the entry (status, progress, message).
TerminalStatusAbsorbing ==
    [][\A j \in 1..MaxJobs :
          (j \in Jobs /\ jobs[j].status \in {"completed", "failed"}) =>
              jobs'[j] = jobs[j]]_vars

\* C26: an entry that reads 'completed' has progress 100, belongs to a job whose
\* run is over, and carries the result reference.
CompletedImpliesResult ==
    \A j \in Jobs :
        jobs[j].status = "completed" =>
            /\ jobs[j].progress = 100
            /\ pc[j] = "done"
            /\ "result" \in DOMAIN jobs[j]
            /\ "transcript_id" \in DOMAIN jobs[j].result

\* C27: a status update that does not report a failure never lowers the
\* progress of the entry, and the progress stays within 0..100.
ProgressMonotone ==
    [][\A j \in 1..MaxJobs :
          (j \in Jobs /\ jobs[j].status # "failed" /\ jobs'[j].status # "failed") =>
              /\ jobs'[j].progress >= jobs[j].progress
              /\ jobs'[j].progress \in 0..100]_vars

\* C28: each of the five model classes is constructed at most once.
SingleModelInstantiation ==
    \A n \in DOMAIN built : built[n] <= 1

\* a stage of run_full_pipeline or a model constructor has raised in job j's run
HasRaised(j) == pc[j] \in {"except", "wrapper_except"}

\* C30: every submitted job is again and again found at the end of
\* run_job_wrapper with status 'completed' or 'failed', and a job found there
\* stays there with its entry unchanged (so it reaches the end and stays); a
\* job enters the except blocks only with an exception raised by a stage or a
\* constructor; its final status is 'failed' when it ends in the except blocks
\* and 'completed', with a result, when it ends with the last statement of
\* run_full_pipeline.
JobTerminates ==
    /\ \A j \in 1..MaxJobs :
          []<>(j \in Jobs => /\ pc[j] = "done"
                              /\ jobs[j].status \in {"completed", "failed"})
    /\ [][\A j \in 1..MaxJobs :
            (j \in Jobs /\ pc'[j] # pc[j]) =>
                /\ HasRaised(j)' =>
                      /\ locals'[j].e # "none"
                      /\ pc[j] = "except" \/ locals[j].e = "none"
                /\ HasRaised(j) => pc'[j] \in {"wrapper_except", "done"}
                /\ pc'[j] = "done" =>
                      /\ pc[j] \in {"wrapper_except", "done100"}
                      /\ jobs'[j].status = (IF HasRaised(j) THEN "failed" ELSE "completed")
                      /\ jobs'[j].progress = (IF HasRaised(j) THEN 0 ELSE 100)
                      /\ HasRaised(j) \/ "result" \in DOMAIN jobs'[j]]_vars
    /\ [][\A j \in 1..MaxJobs :
            (j \in Jobs /\ pc[j] = "done") => /\ pc'[j] = "done"
                                              /\ jobs'[j] = jobs[j]]_vars

\* C30 witness: of two jobs one has ended 'completed' and the other 'failed'.
JobTerminatesWitness ==
    /\ Len(pc) = 2
    /\ \A j \in Jobs : pc[j] = "done"
    /\ jobs[1].status = "completed"
    /\ jobs[2].status = "failed"

====
